---- MODULE Spec2Model ----
(***************************************************************************)
(* go-file-extract: concatenates files into one text for the clipboard,    *)
(* optionally running a command per file, and keeps named argument presets *)
(* per working directory in a JSON configuration.                          *)
(*                                                                         *)
(* The repository holds two variants of the program, both modelled here:   *)
(*   variant "app"    - src/main.go           (App / parseArguments /      *)
(*                                             getData / main)             *)
(*   variant "script" - src/unnamed/part_000  (one main() with globals)    *)
(*                                                                         *)
(* Abstractions.  Tokens, paths, commands are strings of a finite          *)
(* universe; string functions (HasPrefix, Ext, Fields, SplitN, regexp) are *)
(* tables over that universe.  The output text is the sequence of its      *)
(* newline-terminated segments.  The outcome of running a command, of      *)
(* reading a file, of writing the clipboard or the configuration, the      *)
(* gitignore rules and the line typed on standard input are choices of the *)
(* environment.  os.Getwd, os.UserHomeDir and filepath.Rel are taken to    *)
(* succeed (all paths are relative) and the configuration file to be well  *)
(* formed.                                                                 *)
(***************************************************************************)
EXTENDS Integers, Sequences, FiniteSets, TLC

VARIABLES
    variant,            \* "app" (src/main.go) or "script" (src/unnamed/part_000)
    config,             \* the configuration file: [folders, fte]
    runs,               \* invocations started so far
    pc,                 \* position of the running invocation in main()
    cwd,                \* os.Getwd() of the running invocation
    origArgs,           \* os.Args[1:] as typed
    args,               \* the token list main() goes on with
    opts,               \* results of parsing
    merged,             \* finalFileTypeExecutables
    gitIgnored,         \* paths the gitignore matcher matches (none: no matcher)
    idx,                \* index of the next file of the loop
    output,             \* strings.Builder: sequence of segments
    executableOutput,   \* the variable of that name
    clipboard,          \* what this invocation wrote to the clipboard
    procLog,            \* per loop iteration: what the environment did
    prompted,           \* the numbered list and prompt were printed
    stdinRead,          \* a line was read from standard input
    selected,           \* the preset chosen by the resolver, if any
    resolver,           \* which branch of the preset resolver was entered
    startConfig         \* the configuration file as the invocation loaded it

vars == <<variant, config, runs, pc, cwd, origArgs, args, opts, merged,
          gitIgnored, idx, output, executableOutput, clipboard, procLog,
          prompted, stdinRead, selected, resolver, startConfig>>

----------------------------------------------------------------------------
(* Bounds *)

MaxRuns == 1        \* invocations per behaviour
MaxFiles == 2       \* paths after -files on a typed command line

(* Universe *)

Dirs == {"/d1", "/d2"}
Names == {"p", "q"}
FileNames == {"a.go", "b.txt"}

DefaultDelimiter == "======"

\* strings.HasPrefix(t, "-") over the universe
DashTokens == {"-files", "-ignore-pattern", "-ignore-gitignore", "-delimiter",
               "-wrap-code", "-name", "-by-name", "-exec", "-file-exec", "-x"}

HasDashPrefix(t) == t \in DashTokens

\* filepath.Ext over the universe: the suffix from the last dot
Ext(path) ==
    CASE path = "a.go" -> ".go"
      [] path = "b.txt" -> ".txt"
      [] path = ".go=fmt" -> ".go=fmt"
      [] path = ".go=" -> ".go="
      [] OTHER -> ""

\* strings.Fields over the universe
Fields(s) ==
    CASE s = " " -> <<>>
      [] s = "" -> <<>>
      [] s = "lint -v" -> <<"lint", "-v">>
      [] OTHER -> <<s>>

\* strings.SplitN(pair, "=", 2) over the universe
SplitEq(pair) ==
    CASE pair = ".go=fmt" -> <<".go", "fmt">>
      [] pair = ".go=" -> <<".go", "">>
      [] OTHER -> <<pair>>

\* regexp.Compile / MatchString over the universe of patterns
RegexCompiles(p) == p # "["

RegexMatch(p, path) ==
    CASE p = "txt" -> path = "b.txt"
      [] p = "#" -> FALSE
      [] p = "p" -> FALSE
      [] p = "q" -> FALSE
      [] OTHER -> FALSE

EmptyMap == [k \in {} |-> ""]

Put(m, k, v) == [x \in DOMAIN m \cup {k} |-> IF x = k THEN v ELSE m[x]]

languageMap ==
    (".go" :> "go") @@ (".js" :> "javascript") @@ (".ts" :> "typescript") @@
    (".fish" :> "fish") @@ (".py" :> "python") @@ (".java" :> "java") @@
    (".cpp" :> "cpp") @@ (".c" :> "c") @@ (".html" :> "html") @@
    (".css" :> "css") @@ (".sh" :> "bash") @@ (".md" :> "markdown") @@
    (".json" :> "json") @@ (".yaml" :> "yaml") @@ (".yml" :> "yaml") @@
    (".rs" :> "rust") @@ (".php" :> "php") @@ (".rb" :> "ruby")

Language(ext) ==
    IF ext \in DOMAIN languageMap THEN languageMap[ext] ELSE "plaintext"

----------------------------------------------------------------------------
(* Argument parser *)

\* the variables main() declares before parsing
NoOpts ==
    [files |-> <<>>, ignorePattern |-> "", ignoreGitIgnore |-> FALSE,
     delimiter |-> DefaultDelimiter, wrapCode |-> TRUE, saveName |-> "",
     byName |-> "", execCommand |-> "", fileExecs |-> EmptyMap, err |-> ""]

ParseError(msg) ==
    [files |-> <<>>, ignorePattern |-> "", ignoreGitIgnore |-> FALSE,
     delimiter |-> "", wrapCode |-> FALSE, saveName |-> "",
     byName |-> "", execCommand |-> "", fileExecs |-> EmptyMap, err |-> msg]

\* number of tokens from position i on that -files consumes
RECURSIVE FilesRun(_, _)
FilesRun(a, i) ==
    IF i <= Len(a) /\ ~HasDashPrefix(a[i]) THEN 1 + FilesRun(a, i + 1) ELSE 0

\* the pairs of one -file-exec value, applied in order; "bad" on a pair without "="
RECURSIVE ApplyPairs(_, _, _)
ApplyPairs(pairs, k, fe) ==
    IF k > Len(pairs) THEN [ok |-> TRUE, map |-> fe]
    ELSE LET parts == SplitEq(pairs[k]) IN
         IF Len(parts) # 2 THEN [ok |-> FALSE, map |-> fe]
         ELSE ApplyPairs(pairs, k + 1, Put(fe, parts[1], parts[2]))

RECURSIVE ParseFrom(_, _, _)
ParseFrom(a, i, o) ==
    IF i > Len(a) THEN o
    ELSE LET t == a[i]
             last == i + 1 > Len(a)
         IN
         CASE t = "-ignore-pattern" ->
                IF last THEN ParseError("missing value for -ignore-pattern")
                ELSE ParseFrom(a, i + 2, [o EXCEPT !.ignorePattern = a[i + 1]])
           [] t = "-ignore-gitignore" ->
                ParseFrom(a, i + 1, [o EXCEPT !.ignoreGitIgnore = TRUE])
           [] t = "-delimiter" ->
                IF last THEN ParseError("missing value for -delimiter")
                ELSE ParseFrom(a, i + 2, [o EXCEPT !.delimiter = a[i + 1]])
           [] t = "-wrap-code" ->
                IF last THEN ParseError("missing value for -wrap-code")
                ELSE ParseFrom(a, i + 2,
                        IF a[i + 1] = "false" THEN [o EXCEPT !.wrapCode = FALSE]
                        ELSE o)
           [] t = "-name" ->
                IF last THEN ParseError("missing value for -name")
                ELSE ParseFrom(a, i + 2, [o EXCEPT !.saveName = a[i + 1]])
           [] t = "-by-name" ->
                IF last THEN ParseError("missing value for -by-name")
                ELSE ParseFrom(a, i + 2, [o EXCEPT !.byName = a[i + 1]])
           [] t = "-files" ->
                IF last THEN ParseError("missing value for -files")
                ELSE LET n == FilesRun(a, i + 1) IN
                     ParseFrom(a, i + 1 + n,
                        [o EXCEPT !.files = @ \o SubSeq(a, i + 1, i + n)])
           [] t = "-exec" ->
                IF last THEN ParseError("missing value for -exec")
                ELSE ParseFrom(a, i + 2, [o EXCEPT !.execCommand = a[i + 1]])
           [] t = "-file-exec" ->
                IF last THEN ParseError("missing value for -file-exec")
                ELSE LET r == ApplyPairs(Fields(a[i + 1]), 1, o.fileExecs) IN
                     IF ~r.ok THEN ParseError("invalid format for -file-exec")
                     ELSE ParseFrom(a, i + 2, [o EXCEPT !.fileExecs = r.map])
           [] OTHER -> ParseError("unknown argument")

parseArguments(a) == ParseFrom(a, 1, NoOpts)

----------------------------------------------------------------------------
(* Config store *)

\* filterOutFlag(args, flag), scanning from position i
RECURSIVE FilterFrom(_, _, _)
FilterFrom(a, flag, i) ==
    IF i > Len(a) THEN <<>>
    ELSE IF a[i] = flag THEN FilterFrom(a, flag, i + 2)
    ELSE <<a[i]>> \o FilterFrom(a, flag, i + 1)

filterOutFlag(a, flag) == FilterFrom(a, flag, 1)

\* folderConfig.SavedName of a folder (a nil map reads as an empty one)
SavedNameOf(folders, dir) ==
    IF dir \in DOMAIN folders THEN folders[dir] ELSE EmptyMap

getSavedConfig(folders, dir, name) ==
    LET sn == SavedNameOf(folders, dir)
        found == dir \in DOMAIN folders /\ name \in DOMAIN sn /\ Len(sn[name]) > 0
    IN [ok |-> found, args |-> IF found THEN sn[name] ELSE <<>>]

\* a save keyed by one fixed folder instead of the current directory
saveCurrentConfigOneFolder(folders, dir, name, a) ==
    Put(folders, "/d1", Put(SavedNameOf(folders, "/d1"), name, filterOutFlag(a, "-name")))

\* variant "app": the tokens are filtered of -name before they are stored
saveCurrentConfig(folders, dir, name, a) ==
    Put(folders, dir, Put(SavedNameOf(folders, dir), name, filterOutFlag(a, "-name")))

\* variant "script": os.Args[1:] is stored as typed
ScriptSavePreset(folders, dir, name, a) ==
    Put(folders, dir, Put(SavedNameOf(folders, dir), name, a))

SavePreset(v, folders, dir, name, a) ==
    IF v = "app" THEN saveCurrentConfig(folders, dir, name, a)
    ELSE ScriptSavePreset(folders, dir, name, a)

\* the lookup of -by-name in variant "script" (same condition as getSavedConfig)
ScriptLookup(folders, dir, name) ==
    LET sn == SavedNameOf(folders, dir)
        found == dir \in DOMAIN folders /\ name \in DOMAIN sn /\ Len(sn[name]) > 0
    IN [ok |-> found, args |-> IF found THEN sn[name] ELSE <<>>]

LookupPreset(v, folders, dir, name) ==
    IF v = "app" THEN getSavedConfig(folders, dir, name)
    ELSE ScriptLookup(folders, dir, name)

----------------------------------------------------------------------------
(* Inputs *)

Variants == {"app", "script"}

FileSeqs == UNION {[1..k -> FileNames] : k \in 0..MaxFiles}

FilesPart(fs) == IF fs = <<>> THEN <<>> ELSE <<"-files">> \o fs

OptGroups ==
    {<<>>, <<"-exec", "lint">>, <<"-file-exec", ".go=fmt">>,
     <<"-file-exec", ".go=">>, <<"-delimiter", "#">>, <<"-wrap-code", "false">>,
     <<"-ignore-pattern", "txt">>, <<"-ignore-pattern", "[">>,
     <<"-ignore-gitignore">>, <<"-x">>}

RunLines == {FilesPart(fs) \o og : fs \in FileSeqs, og \in OptGroups}

ByNameLines ==
    {body \o <<"-by-name", n>> : body \in {<<>>, <<"-files", "a.go">>}, n \in Names}

PresetA == <<"-files", "a.go", "b.txt", "-exec", "lint">>
PresetB == <<"-files", "b.txt", "-wrap-code", "false">>

SaveBodies ==
    {<<>>, PresetA, PresetB, <<"-delimiter", "#">>, <<"-delimiter", "-name">>}

SaveLines == {body \o <<"-name", n>> : body \in SaveBodies, n \in Names}

\* command lines the parser rejects after flags it has accepted
ErrLines ==
    {<<"-name", "p", "-x">>, <<"-name", "p", "-delimiter">>,
     <<"-name", "p", "-file-exec", "bad">>,
     <<"-files", "a.go", "-exec", "lint", "-x">>,
     <<"-files", "a.go", "-exec", "lint", "-files">>,
     <<"-files", "a.go", "-file-exec", "bad">>}

\* the ignore regex with and without the gitignore filter switched off
IgnoreLines ==
    {<<"-files", "a.go", "b.txt", "-ignore-pattern", "txt", "-ignore-gitignore">>,
     <<"-files", "b.txt", "a.go", "-ignore-pattern", "txt", "-exec", "lint">>}

CmdLines == RunLines \cup ByNameLines \cup SaveLines \cup ErrLines \cup IgnoreLines

\* the folders a configuration file holds at the start: written by earlier saves
SaveTyped(v, folders, dir, typed) ==
    SavePreset(v, folders, dir, parseArguments(typed).saveName, typed)

InitFolders(v) ==
    LET f1 == SaveTyped(v, EmptyMap, "/d1", PresetA \o <<"-name", "p">>)
        f2 == SaveTyped(v, f1, "/d1", PresetB \o <<"-name", "q">>)
        f3 == SaveTyped(v, f1, "/d2", PresetB \o <<"-name", "p">>)
    IN {EmptyMap, f1, f2, f3}

\* file_type_executables is only ever written by hand
InitFte == {EmptyMap, (".go" :> "vet") @@ (".txt" :> "wc"), (".txt" :> " ")}

GitIgnoreSets == {{}, {"a.go"}}

StdinChoices == {0, 1, 2, 3}    \* 0: not a number

----------------------------------------------------------------------------
(* File processor: the steps of one loop iteration *)

NoOutput == <<>>                        \* the empty string of executableOutput

Seg(kind, a, b) == <<kind, a, b>>

\* the merge with the two loops swapped: the configuration wins
MergeExecutablesConfigWins(fte, fileExecs) ==
    [e \in DOMAIN fte \cup DOMAIN fileExecs |->
        IF e \in DOMAIN fte THEN fte[e] ELSE fileExecs[e]]

\* the merge into finalFileTypeExecutables: config first, -file-exec over it
MergeExecutables(fte, fileExecs) ==
    [e \in DOMAIN fte \cup DOMAIN fileExecs |->
        IF e \in DOMAIN fileExecs THEN fileExecs[e] ELSE fte[e]]

\* "Determine the executable command for this file type"
ResolveExecutable(execCommand, m, ext) ==
    IF execCommand # "" THEN execCommand
    ELSE IF ext \in DOMAIN m THEN m[ext]
    ELSE ""

\* the filters without the regex test
IgnoredGitOnly(o, git, f) == ~o.ignoreGitIgnore /\ f \in git

\* the regex and gitignore filters at the head of the loop body
Ignored(o, git, f) ==
    \/ o.ignorePattern # "" /\ RegexMatch(o.ignorePattern, f)
    \/ ~o.ignoreGitIgnore /\ f \in git

\* a failed command that is only logged, as a failed read is
ExecFailurePcContinue(execOk) == "process"

\* what a failed command does to the run
ExecFailurePc(execOk) == IF execOk THEN "process" ELSE "fatal"

\* executableOutput at the head of an iteration: a fresh local in variant
\* "app", the variable declared outside the loop in variant "script"
ExecOutputAtLoopHead(v, carried) == IF v = "app" THEN NoOutput ELSE carried

\* the segments written for one file
Block(o, f, execOut) ==
    <<Seg("path", f, "")>>
    \o (IF o.wrapCode THEN <<Seg("fence", Language(Ext(f)), "")>> ELSE <<>>)
    \o <<Seg("content", f, "")>>
    \o (IF o.wrapCode THEN <<Seg("endfence", "", "")>> ELSE <<>>)
    \o (IF execOut # NoOutput THEN <<Seg("execout", execOut[1], execOut[2])>> ELSE <<>>)
    \o <<Seg("delim", o.delimiter, "")>>

NoClipboard == [written |-> FALSE, text |-> <<>>]
NoSelection == [set |-> FALSE, name |-> "", tokens |-> <<>>]

\* the save branch taken whatever was parsed
SaveRequestedAlways(o) == TRUE

\* the test of the save branch made on the wrong variable
SaveRequestedByName(o) == o.byName # ""

\* "if saveName != \"\"": the save branch is taken
SaveRequested(o) == o.saveName # ""

----------------------------------------------------------------------------
(* State machine *)

Init ==
    /\ variant \in Variants
    /\ \E f \in InitFolders(variant), e \in InitFte : config = [folders |-> f, fte |-> e]
    /\ runs = 0
    /\ pc = "idle"
    /\ cwd = "/d1"
    /\ origArgs = <<>>
    /\ args = <<>>
    /\ opts = NoOpts
    /\ merged = EmptyMap
    /\ gitIgnored = {}
    /\ idx = 1
    /\ output = <<>>
    /\ executableOutput = NoOutput
    /\ clipboard = NoClipboard
    /\ procLog = <<>>
    /\ prompted = FALSE
    /\ stdinRead = FALSE
    /\ selected = NoSelection
    /\ resolver = "none"
    /\ startConfig = config

Ended == pc \in {"idle", "done", "saved", "fatal"}

\* the process starts: the configuration is loaded, os.Args is set
Invoke ==
    /\ Ended
    /\ runs < MaxRuns
    /\ \E a \in CmdLines, d \in Dirs :
        /\ origArgs' = a
        /\ args' = a
        /\ cwd' = d
    /\ runs' = runs + 1
    /\ pc' = "start"
    /\ opts' = NoOpts
    /\ merged' = EmptyMap
    /\ gitIgnored' = {}
    /\ idx' = 1
    /\ output' = <<>>
    /\ executableOutput' = NoOutput
    /\ clipboard' = NoClipboard
    /\ procLog' = <<>>
    /\ prompted' = FALSE
    /\ stdinRead' = FALSE
    /\ selected' = NoSelection
    /\ resolver' = "none"
    /\ startConfig' = config
    /\ UNCHANGED <<variant, config>>

\* variant "app": "Handle interactive selection if no arguments are provided"
AppSelect ==
    /\ variant = "app"
    /\ pc = "start"
    /\ Len(args) = 0
    /\ resolver' = "interactive"
    /\ LET sn == SavedNameOf(config.folders, cwd) IN
       IF cwd \notin DOMAIN config.folders \/ Cardinality(DOMAIN sn) = 0
       THEN /\ pc' = "fatal"
            /\ UNCHANGED <<args, prompted, stdinRead, selected>>
       ELSE /\ prompted' = TRUE
            /\ stdinRead' = TRUE
            /\ \E choice \in StdinChoices :
                 IF choice < 1 \/ choice > Cardinality(DOMAIN sn)
                 THEN /\ pc' = "fatal"
                      /\ UNCHANGED <<args, selected>>
                 ELSE \E name \in DOMAIN sn :     \* savedNames[choice-1], map order
                      LET r == getSavedConfig(config.folders, cwd, name) IN
                      IF ~r.ok
                      THEN /\ pc' = "fatal"
                           /\ UNCHANGED <<args, selected>>
                      ELSE /\ args' = r.args
                           /\ selected' = [set |-> TRUE, name |-> name, tokens |-> r.args]
                           /\ pc' = "parse"
    /\ UNCHANGED <<variant, startConfig, config, runs, cwd, origArgs, opts, merged, gitIgnored,
                   idx, output, executableOutput, clipboard, procLog>>

\* a parse error that is not looked at
ParsePcIgnoringError(o) == "parsed"

\* "if err != nil { log.Fatalf(...) }" after parseArguments
ParsePc(o) == IF o.err # "" THEN "fatal" ELSE "parsed"

\* parseArguments(args) in variant "app", the argument loop in variant "script"
Parse ==
    /\ \/ variant = "app" /\ (pc = "parse" \/ (pc = "start" /\ Len(args) # 0))
       \/ variant = "script" /\ pc = "start"
    /\ opts' = parseArguments(args)
    /\ pc' = ParsePc(opts')
    /\ UNCHANGED <<variant, startConfig, config, runs, cwd, origArgs, args, merged, gitIgnored,
                   idx, output, executableOutput, clipboard, procLog, prompted,
                   stdinRead, selected, resolver>>

\* "-name": store the preset, write the configuration file, return
Save ==
    /\ pc = "parsed"
    /\ SaveRequested(opts)
    /\ \E written \in BOOLEAN :
         IF written
         THEN /\ config' = [config EXCEPT !.folders =
                    SavePreset(variant, @, cwd, opts.saveName, args)]
              /\ pc' = "saved"
         ELSE /\ pc' = "fatal"
              /\ UNCHANGED config
    /\ UNCHANGED <<variant, startConfig, runs, cwd, origArgs, args, opts, merged, gitIgnored,
                   idx, output, executableOutput, clipboard, procLog, prompted,
                   stdinRead, selected, resolver>>

\* variant "script": "Handle -by-name option or auto-select arguments"
ScriptResolve ==
    /\ variant = "script"
    /\ pc = "parsed"
    /\ ~SaveRequested(opts)
    /\ resolver' = IF opts.byName # "" THEN "by-name"
                   ELSE IF Len(opts.files) = 0 THEN "auto"
                   ELSE "none"
    /\ LET sn == SavedNameOf(config.folders, cwd) IN
       IF opts.byName # ""
       THEN LET r == ScriptLookup(config.folders, cwd, opts.byName) IN
            /\ UNCHANGED <<prompted, stdinRead>>
            /\ IF ~r.ok
               THEN /\ pc' = "fatal"
                    /\ UNCHANGED <<args, selected>>
               ELSE /\ args' = r.args
                    /\ selected' = [set |-> TRUE, name |-> opts.byName, tokens |-> r.args]
                    /\ pc' = "resolved"
       ELSE IF Len(opts.files) = 0
       THEN IF cwd \notin DOMAIN config.folders \/ Cardinality(DOMAIN sn) = 0
            THEN /\ pc' = "fatal"
                 /\ UNCHANGED <<args, prompted, stdinRead, selected>>
            ELSE IF Cardinality(DOMAIN sn) = 1
            THEN /\ \E name \in DOMAIN sn :
                      /\ args' = sn[name]
                      /\ selected' = [set |-> TRUE, name |-> name, tokens |-> sn[name]]
                 /\ pc' = "resolved"
                 /\ UNCHANGED <<prompted, stdinRead>>
            ELSE /\ prompted' = TRUE
                 /\ stdinRead' = TRUE
                 /\ \E index \in StdinChoices :
                      IF index < 1 \/ index > Cardinality(DOMAIN sn)
                      THEN /\ pc' = "fatal"
                           /\ UNCHANGED <<args, selected>>
                      ELSE \E name \in DOMAIN sn :    \* savedNames[index-1], map order
                           /\ args' = sn[name]
                           /\ selected' = [set |-> TRUE, name |-> name, tokens |-> sn[name]]
                           /\ pc' = "resolved"
       ELSE /\ pc' = "resolved"
            /\ UNCHANGED <<args, prompted, stdinRead, selected>>
    /\ UNCHANGED <<variant, startConfig, config, runs, cwd, origArgs, opts, merged, gitIgnored,
                   idx, output, executableOutput, clipboard, procLog>>

\* up to the file loop: "Ensure files are provided" (variant "app"), the ignore
\* regex, the gitignore matcher, the merge of the executables
Begin ==
    /\ \/ variant = "app" /\ pc = "parsed" /\ ~SaveRequested(opts)
       \/ variant = "script" /\ pc = "resolved"
    /\ IF variant = "app" /\ Len(opts.files) = 0
       THEN /\ pc' = "fatal"
            /\ UNCHANGED <<merged, gitIgnored>>
       ELSE IF opts.ignorePattern # "" /\ ~RegexCompiles(opts.ignorePattern)
       THEN /\ pc' = "fatal"
            /\ UNCHANGED <<merged, gitIgnored>>
       ELSE /\ pc' = "process"
            /\ merged' = MergeExecutables(config.fte, opts.fileExecs)
            /\ IF opts.ignoreGitIgnore
               THEN gitIgnored' = {}
               ELSE gitIgnored' \in GitIgnoreSets
    /\ UNCHANGED <<variant, startConfig, config, runs, cwd, origArgs, args, opts, idx, output,
                   executableOutput, clipboard, procLog, prompted, stdinRead, selected,
                   resolver>>

LogEntry(f, ignored, cmd, ran, execOk, out, readTried, readOk) ==
    [file |-> f, ignored |-> ignored, cmd |-> cmd, ran |-> ran, execOk |-> execOk,
     out |-> out, readTried |-> readTried, readOk |-> readOk]

\* one iteration of "Process each file"
ProcessFile ==
    /\ pc = "process"
    /\ idx <= Len(opts.files)
    /\ LET f == opts.files[idx]
           executable == ResolveExecutable(opts.execCommand, merged, Ext(f))
           atHead == ExecOutputAtLoopHead(variant, executableOutput)
       IN
       IF Ignored(opts, gitIgnored, f)
       THEN /\ idx' = idx + 1
            /\ procLog' = Append(procLog,
                   LogEntry(f, TRUE, "", FALSE, FALSE, NoOutput, FALSE, FALSE))
            /\ UNCHANGED <<pc, output, executableOutput>>
       ELSE IF executable # "" /\ Len(Fields(executable)) = 0
       THEN /\ pc' = "fatal"            \* "invalid executable command"
            /\ procLog' = Append(procLog,
                   LogEntry(f, FALSE, executable, FALSE, FALSE, NoOutput, FALSE, FALSE))
            /\ UNCHANGED <<idx, output, executableOutput>>
       ELSE \E execOk \in (IF executable # "" THEN BOOLEAN ELSE {TRUE}),
               out \in (IF executable # "" THEN {NoOutput, <<executable, f>>}
                                          ELSE {NoOutput}),
               readOk \in BOOLEAN :
            LET ran == executable # ""
                after == IF ran THEN ExecFailurePc(execOk) ELSE "process"
                captured == IF ran THEN out ELSE atHead
            IN
            IF after = "fatal"
            THEN /\ out = NoOutput /\ readOk
                 /\ pc' = "fatal"
                 /\ procLog' = Append(procLog,
                        LogEntry(f, FALSE, executable, TRUE, FALSE, NoOutput, FALSE, FALSE))
                 /\ UNCHANGED <<idx, output, executableOutput>>
            ELSE /\ idx' = idx + 1
                 /\ executableOutput' = captured
                 /\ procLog' = Append(procLog,
                        LogEntry(f, FALSE, executable, ran, execOk, (IF ran THEN out ELSE NoOutput),
                                 TRUE, readOk))
                 /\ output' = IF readOk THEN output \o Block(opts, f, captured)
                              ELSE output
                 /\ UNCHANGED pc
    /\ UNCHANGED <<variant, startConfig, config, runs, cwd, origArgs, args, opts, merged,
                   gitIgnored, clipboard, prompted, stdinRead, selected, resolver>>

\* after the loop: clipboard.WriteAll(output)
WriteClipboard ==
    /\ pc = "process"
    /\ idx > Len(opts.files)
    /\ \E copied \in BOOLEAN :
         IF copied
         THEN /\ clipboard' = [written |-> TRUE, text |-> output]
              /\ pc' = "done"
         ELSE /\ pc' = "fatal"
              /\ UNCHANGED clipboard
    /\ UNCHANGED <<variant, startConfig, config, runs, cwd, origArgs, args, opts, merged,
                   gitIgnored, idx, output, executableOutput, procLog, prompted,
                   stdinRead, selected, resolver>>

Next ==
    \/ Invoke
    \/ AppSelect
    \/ Parse
    \/ Save
    \/ ScriptResolve
    \/ Begin
    \/ ProcessFile
    \/ WriteClipboard

Spec == Init /\ [][Next]_vars

----------------------------------------------------------------------------
(* Properties *)

Typed == parseArguments(origArgs)       \* the command line as typed, parsed

Running == pc \notin {"idle", "start", "parse"}

PresetNames == DOMAIN SavedNameOf(config.folders, cwd)

\* the tokens of a with each adjacent pair <<"-name", n>> taken out
RECURSIVE WithoutNamePair(_, _, _)
WithoutNamePair(a, n, i) ==
    IF i > Len(a) THEN <<>>
    ELSE IF a[i] = "-name" /\ i + 1 <= Len(a) /\ a[i + 1] = n
         THEN WithoutNamePair(a, n, i + 2)
         ELSE <<a[i]>> \o WithoutNamePair(a, n, i + 1)

\* C1: after an invocation saved its tokens under name N in directory D,
\* looking up (D, N) succeeds and returns the typed tokens with the pair
\* "-name N" removed, in order, also when nothing else remains.
C1_RoundTrip ==
    pc = "saved" =>
        LookupPreset(variant, config.folders, cwd, opts.saveName)
            = [ok |-> TRUE, args |-> WithoutNamePair(origArgs, opts.saveName, 1)]

\* C2: whenever a preset was selected, the options the file processor works
\* with are those obtained by parsing the preset's stored tokens, which have
\* replaced the typed token list.
C2_PresetReparsed ==
    (selected.set /\ pc \in {"process", "done"}) =>
        /\ args = selected.tokens
        /\ opts = parseArguments(selected.tokens)

\* C3: every invocation whose typed command line parses, has no save name and
\* has -by-name or an empty file list enters preset resolution.
C3_ResolutionEntered ==
    (/\ pc \in {"resolved", "process", "done", "fatal"}
     /\ Typed.err = ""
     /\ Typed.saveName = ""
     /\ (Typed.byName # "" \/ Len(Typed.files) = 0))
        => resolver # "none"

\* C4: when the parsed arguments hold a save name, the invocation runs no
\* command, reads no input file and writes no clipboard; it ends having
\* written the preset to the configuration, or in a fatal error.
C4_SaveExcludesProcessing ==
    (Running /\ opts.saveName # "") =>
        /\ procLog = <<>>
        /\ output = <<>>
        /\ ~clipboard.written
        /\ pc \in {"parsed", "saved", "fatal"}
        /\ pc = "saved" => opts.saveName \in PresetNames

C4_Witness ==
    /\ pc = "saved"
    /\ Len(opts.files) > 0
    /\ opts.saveName \in PresetNames

\* the command the priority rule names for a file of extension ext
PriorityCommand(ext) ==
    IF opts.execCommand # "" THEN opts.execCommand
    ELSE IF ext \in DOMAIN opts.fileExecs THEN opts.fileExecs[ext]
    ELSE IF ext \in DOMAIN config.fte THEN config.fte[ext]
    ELSE ""

\* C5: for every file that is not ignored, the command is chosen by strict
\* priority: -exec, else the -file-exec entry of the extension, else the
\* persisted entry of the extension, else none; a command is run exactly
\* when the chosen one is not blank.
C5_ExecPriority ==
    \A i \in DOMAIN procLog :
        ~procLog[i].ignored =>
            /\ procLog[i].cmd = PriorityCommand(Ext(procLog[i].file))
            /\ procLog[i].ran <=> Len(Fields(procLog[i].cmd)) > 0

C5_Witness ==
    \E i, j \in DOMAIN procLog :
        /\ procLog[i].ran
        /\ opts.execCommand = ""
        /\ Ext(procLog[i].file) \in DOMAIN opts.fileExecs \cap DOMAIN config.fte
        /\ procLog[i].cmd = opts.fileExecs[Ext(procLog[i].file)]
        /\ procLog[i].cmd # config.fte[Ext(procLog[i].file)]
        /\ procLog[j].ran
        /\ Ext(procLog[j].file) \notin DOMAIN opts.fileExecs
        /\ procLog[j].cmd = config.fte[Ext(procLog[j].file)]

\* C6: if the command run for a file fails, the run is fatal: that file is
\* the last one processed, nothing is written to the clipboard, and the
\* process exits non-zero.
C6_ExecFailureFatal ==
    \A i \in DOMAIN procLog :
        (procLog[i].ran /\ ~procLog[i].execOk) =>
            /\ i = Len(procLog)
            /\ pc = "fatal"
            /\ ~clipboard.written

C6_Witness ==
    /\ pc = "fatal"
    /\ Len(procLog) = 2
    /\ procLog[2].ran /\ ~procLog[2].execOk
    /\ output # <<>>
    /\ ~clipboard.written

\* the file a segment of the output was produced for ("" for a delimiter
\* or a closing fence)
SegFile(seg) ==
    CASE seg[1] = "path" -> seg[2]
      [] seg[1] = "content" -> seg[2]
      [] seg[1] = "execout" -> seg[3]
      [] OTHER -> ""

\* C7: a failed read only skips the file: the loop goes on with the next
\* file, and no segment of the output (path, content, executable output)
\* comes from a file whose read failed.
C7_ReadFailureOnlySkips ==
    /\ \A i \in DOMAIN procLog :
          (procLog[i].readTried /\ ~procLog[i].readOk) => idx > i
    /\ \A k \in DOMAIN output :
          SegFile(output[k]) # "" =>
              \E i \in DOMAIN procLog :
                  procLog[i].file = SegFile(output[k]) /\ procLog[i].readOk

\* the path segment that opens the block segment k lies in
BlockStart(k) ==
    CHOOSE j \in 1..k :
        /\ output[j][1] = "path"
        /\ \A m \in (j + 1)..k : output[m][1] # "path"

\* C8: the executable output in a file's block was captured from the command
\* run against that same file; a file without a resolved command has no
\* executable-output segment in its block.
C8_ExecOutputOfSameFile ==
    \A k \in DOMAIN output :
        output[k][1] = "execout" =>
            /\ output[k][3] = output[BlockStart(k)][2]
            /\ output[k][2] = PriorityCommand(Ext(output[BlockStart(k)][2]))

\* the block of one log entry as the output format describes it
FormatBlock(e) ==
    LET ext == Ext(e.file)
        label == IF ext \in DOMAIN languageMap THEN languageMap[ext] ELSE "plaintext"
    IN  <<<<"path", e.file, "">>>>
        \o (IF opts.wrapCode THEN <<<<"fence", label, "">>>> ELSE <<>>)
        \o <<<<"content", e.file, "">>>>
        \o (IF opts.wrapCode THEN <<<<"endfence", "", "">>>> ELSE <<>>)
        \o (IF e.ran /\ e.out # <<>> THEN <<<<"execout", e.out[1], e.out[2]>>>> ELSE <<>>)
        \o <<<<"delim", opts.delimiter, "">>>>

RECURSIVE FormatBlocks(_, _)
FormatBlocks(log, i) ==
    IF i > Len(log) THEN <<>>
    ELSE (IF ~log[i].ignored /\ log[i].readOk THEN FormatBlock(log[i]) ELSE <<>>)
         \o FormatBlocks(log, i + 1)

\* C9: the output is the concatenation, in list order, of one block per file
\* neither ignored nor unreadable: path, opening fence with the language label
\* (wrap-code only), content, closing fence (wrap-code only), the output
\* captured from the file's own command (if not empty), delimiter; it is a
\* function of what was read and captured, and is what the clipboard receives.
C9_OutputIsBlocks ==
    pc \in {"process", "done"} =>
        /\ output = FormatBlocks(procLog, 1)
        /\ pc = "done" => clipboard.text = output

\* C10: with no files and no -by-name typed and exactly one preset saved for
\* the directory, that preset is used without a prompt and without reading
\* standard input; the prompt appears only with more than one preset.
C10_SinglePresetAutomatic ==
    /\ (/\ pc \in {"resolved", "process", "done", "fatal"}
        /\ Typed.err = ""
        /\ Typed.saveName = ""
        /\ Typed.byName = ""
        /\ Len(Typed.files) = 0
        /\ Cardinality(PresetNames) = 1)
           => (selected.set /\ ~prompted /\ ~stdinRead)
    /\ prompted => Cardinality(PresetNames) > 1


PastResolution == pc \in {"resolved", "process", "done", "fatal"}

\* C11: when -by-name X is typed (and no save name) and the directory has no
\* preset X, the invocation ends in a fatal error without processing a file
\* and without writing the clipboard, also when -files is typed as well.
C11_MissingPresetFatal ==
    (/\ PastResolution
     /\ Typed.err = ""
     /\ Typed.saveName = ""
     /\ Typed.byName # ""
     /\ ~LookupPreset(variant, startConfig.folders, cwd, Typed.byName).ok)
        => /\ pc = "fatal"
           /\ procLog = <<>>
           /\ ~clipboard.written

\* C12: a token list the parser rejects makes the invocation fatal and none
\* of the flags before the error takes effect: the configuration is as it
\* was, no command was run, no file read, the clipboard is not written.
C12_ParseAllOrNothing ==
    (Running /\ opts.err # "") =>
        /\ pc = "fatal"
        /\ config = startConfig
        /\ procLog = <<>>
        /\ output = <<>>
        /\ ~clipboard.written

C12_Witness ==
    /\ pc = "fatal"
    /\ opts.err # ""
    /\ Len(origArgs) > 2
    /\ origArgs[1] = "-name"
    /\ origArgs[2] \notin DOMAIN SavedNameOf(config.folders, cwd)


\* the preset stored for (d, n): a one-element sequence, empty when absent
PresetAt(folders, d, n) ==
    IF d \in DOMAIN folders /\ n \in DOMAIN folders[d] THEN <<folders[d][n]>> ELSE <<>>

AllPresetNames(folders) == UNION {DOMAIN folders[d] : d \in DOMAIN folders}

\* C13: presets never cross-apply: a preset selected in directory D is the
\* token list stored for D when the invocation started, and a save in D
\* leaves every preset of every other directory and every other name of D
\* unchanged.
C13_NoCrossApply ==
    /\ selected.set =>
          PresetAt(startConfig.folders, cwd, selected.name) = <<selected.tokens>>
    /\ \A d \in DOMAIN startConfig.folders \cup DOMAIN config.folders :
          \A n \in AllPresetNames(startConfig.folders) \cup AllPresetNames(config.folders) :
              (d # cwd \/ n # opts.saveName) =>
                  PresetAt(config.folders, d, n) = PresetAt(startConfig.folders, d, n)

C13_Witness ==
    /\ selected.set
    /\ cwd = "/d2"
    /\ PresetAt(config.folders, "/d1", selected.name) # <<>>
    /\ PresetAt(config.folders, "/d1", selected.name) # <<selected.tokens>>

PatternMatches(f) ==
    opts.ignorePattern # "" /\ RegexMatch(opts.ignorePattern, f)

\* C14: a file whose path matches the -ignore-pattern regex never appears in
\* the output, with the gitignore filter on or off and with or without a
\* matcher: no path, content or executable output of it, no command run on it.
C14_IgnorePatternExcludes ==
    /\ \A k \in DOMAIN output :
          SegFile(output[k]) # "" => ~PatternMatches(SegFile(output[k]))
    /\ \A i \in DOMAIN procLog :
          PatternMatches(procLog[i].file) =>
              (procLog[i].ignored /\ ~procLog[i].ran /\ ~procLog[i].readTried)

C14_Witness ==
    /\ pc = "done"
    /\ clipboard.text # <<>>
    /\ opts.ignoreGitIgnore
    /\ \E i \in DOMAIN procLog : PatternMatches(procLog[i].file)

\* C15: the configuration is written only on the save path: an invocation
\* that does not end in a completed save, and every invocation typed without
\* a save name, leaves the configuration as it was at its start; a save never
\* changes fileTypeExecutables.
C15_ConfigWrittenOnlyOnSave ==
    /\ pc # "saved" => config = startConfig
    /\ (Typed.err # "" \/ Typed.saveName = "") => config = startConfig
    /\ config.fte = startConfig.fte

C15_Witness ==
    /\ pc = "saved"
    /\ config.folders # startConfig.folders
    /\ config.fte = startConfig.fte
    /\ config.fte # EmptyMap

\* C16: for every token list that parses with a save name, the stored preset
\* (the list filtered by filterOutFlag) parses too and yields the same files,
\* ignore pattern, ignore-gitignore flag, delimiter, wrap flag, exec command
\* and file-exec map, with only the save name empty.
C16_ReplayEquivalence ==
    (pc \in {"parsed", "saved"} /\ opts.err = "" /\ opts.saveName # "") =>
        parseArguments(filterOutFlag(args, "-name")) = [opts EXCEPT !.saveName = ""]

====
